---- MODULE Spec2Model ----
(***************************************************************************)
(* Lifecycle coordinator of netgex: Server.Run of src/server/server.go.    *)
(* One Server is constructed, Run is called once with an input context,    *)
(* the process list is assembled, PreRun runs in list order, one goroutine *)
(* per process calls Run and reports a failure through a buffered channel, *)
(* the coordinator selects on ctx.Done and the channel, and then shuts     *)
(* every process down in reverse order under a fresh timeout context.      *)
(***************************************************************************)
EXTENDS Integers, Sequences, FiniteSets, TLC

VARIABLES
    processes,        \* s.processes
    telemetryEnabled, \* s.telemetryEnabled
    closeTimeout,     \* s.cfg.CloseTimeout
    pc,               \* position of the goroutine that called Server.Run
    idx,              \* loop variable of the PreRun, launch and Shutdown loops
    ctxs,             \* the contexts: id -> [parent, deadline, err]
    errCh,            \* errCh: the buffered error channel
    err,              \* the local variable err of Server.Run
    retval,           \* what Server.Run returned
    g,                \* position of the goroutine launched for each process
    preRunRes,        \* what PreRun returned, per process
    runRes,           \* what Run returned, per process
    sdRes,            \* what Shutdown returned, per process
    sdLog,            \* the Shutdown calls made so far, in order
    cause,            \* which case of the select fired
    splashCount,      \* number of displaySplash calls
    services,         \* s.services
    grpcUnaryServerInterceptors,  \* s.grpcUnaryServerInterceptors
    grpcStreamServerInterceptors, \* s.grpcStreamServerInterceptors
    cfgTelemetry,     \* s.cfg.Telemetry: what GetUnaryInterceptors reads of it
    opts,             \* the options NewServer has applied so far
    faultBudget,      \* how many Run and Shutdown calls may fail in this run
    server,           \* the field server of each system process: its listener
    registry,         \* the collectors registered with prometheus.DefaultRegisterer
    telemetryService, \* the component fields of telemetry.Service
    calls,            \* the calls a system process has made to its collaborators
    now,              \* the time
    timer             \* when the time.After of a running gRPC Shutdown fires

\* the fields that Server.Run only reads
fixed == <<services, cfgTelemetry, opts, faultBudget>>

interceptors == <<grpcUnaryServerInterceptors, grpcStreamServerInterceptors>>

\* what the system processes keep to themselves; Server.Run sees a process
\* through PreRun, Run and Shutdown only
internals == <<server, registry, telemetryService, calls, now, timer>>

vars == <<processes, telemetryEnabled, closeTimeout, pc, idx, ctxs, errCh, err,
          retval, g, preRunRes, runRes, sdRes, sdLog, cause, splashCount,
          interceptors, fixed, internals>>

----------------------------------------------------------------------------
(* Bounds *)

MaxCustom == 0

MaxFaults == 2

\* options given to NewServer
MaxOpts == 2

\* custom processes of the runs that start from InitCustom
MaxCustomRun == 1

\* PreRun and Shutdown calls a caller makes on the system processes directly
MaxCalls == 3

\* service registrars given to the gateway
MaxRegistrars == 3

\* the close timeouts tried where time is counted, in ticks
MaxTimeout == 1

----------------------------------------------------------------------------
(* Errors: a Go error is its message (a sequence of text pieces) and the   *)
(* error it wraps, if any. The nil error has no message and wraps nothing. *)

NoError == [msg |-> <<>>, cause |-> <<>>]

ErrorsNew(text) == [msg |-> text, cause |-> <<>>]

\* fmt.Errorf(prefix + "%w", e)
Errorf(prefix, e) == [msg |-> prefix \o e.msg, cause |-> <<e>>]

\* errors.Unwrap
Unwrap(e) == IF e.cause = <<>> THEN NoError ELSE e.cause[1]

\* the error a process returns when its phase fails
ProcErr(phase, p) == ErrorsNew(<<phase, " failed: ", p>>)

NotCalled == [msg |-> <<"<not called>">>, cause |-> <<>>]

Pending == [msg |-> <<"<pending>">>, cause |-> <<>>]

----------------------------------------------------------------------------
(* The process list *)

CustomNames == <<"custom1", "custom2", "custom3">>

CustomLists == { SubSeq(CustomNames, 1, n) : n \in 0..MaxCustom }

TelemetryName == "telemetry"

systemProcesses == <<"grpc", "gateway", "metrics", "pprof">>

AllNames == { CustomNames[i] : i \in 1..Len(CustomNames) }
              \cup {TelemetryName}
              \cup { systemProcesses[i] : i \in 1..Len(systemProcesses) }

\* s.addProcesses
addProcesses(list, more) == list \o more

\* the list Run operates on: lines 92-99 and 140-143
AssembledProcesses(stored, telemetry) ==
    addProcesses(
        IF telemetry THEN addProcesses(stored, <<TelemetryName>>) ELSE stored,
        systemProcesses)

\* the index a Go loop over the list gives the TLA+ position i
GoIndex(i) == i - 1

----------------------------------------------------------------------------
(* Construction: NewServer and the options of src/server/option.go *)

\* config.NewConfig(): CloseTimeout: 10 * time.Second
DefaultCloseTimeout == 10

\* config.NewConfig(): the fields of Telemetry that Server.Run reads
DefaultTelemetry ==
    [TracingEnabled |-> FALSE, MetricsEnabled |-> FALSE, MetricsBackend |-> "prometheus"]

\* &config.Config{}: the zero value
ZeroCloseTimeout == 0

ZeroTelemetry ==
    [TracingEnabled |-> FALSE, MetricsEnabled |-> FALSE, MetricsBackend |-> ""]

WithServices(cur, a) == a

\* an option that assigns the process list
WithProcesses_Assign(cur, a) == a

WithProcesses(cur, a) == cur \o a

WithGRPCUnaryInterceptors(cur, a) == a

WithGRPCStreamInterceptors(cur, a) == a

WithCloseTimeout(cur, timeout) == timeout

\* the option names that set s.telemetryEnabled
TelemetryOptions == {"WithTelemetry", "WithTracingBackend", "WithMetricsBackend"}

\* the slice arguments the options are given
InterceptorArgs == {<<"x">>, <<"y">>, <<"x", "y">>}

ServiceArgs == {<<"svc1">>, <<"svc2">>}

\* processes not yet in the list, one or two at a time
ProcessArgs(cur) ==
    { SubSeq(CustomNames, Len(cur) + 1, Len(cur) + k) :
        k \in { j \in 1..2 : Len(cur) + j <= Len(CustomNames) } }

\* s.addGRPCUnaryInterceptors, s.addGRPCStreamInterceptors
addGRPCInterceptors(cur, more) == cur \o more

\* telemetry.Service.GetUnaryInterceptors
GetUnaryInterceptors(t) ==
    (IF t.TracingEnabled THEN <<"TracingUnaryInterceptor">> ELSE <<>>)
    \o (IF t.MetricsEnabled /\ t.MetricsBackend = "prometheus"
        THEN <<"MetricsUnaryInterceptor">> ELSE <<>>)

\* telemetry.Service.GetStreamInterceptors
GetStreamInterceptors(t) ==
    (IF t.TracingEnabled THEN <<"TracingStreamInterceptor">> ELSE <<>>)
    \o (IF t.MetricsEnabled /\ t.MetricsBackend = "prometheus"
        THEN <<"MetricsStreamInterceptor">> ELSE <<>>)

----------------------------------------------------------------------------
(* Contexts *)

Background == "background"

InputCtx == "input"

ShutdownCtx == "shutdown"

\* ctx.Err(): "" while the context is live, else why it is done; a context is
\* done as soon as its parent is
RECURSIVE CtxErr(_, _)
CtxErr(cs, c) ==
    IF c = Background THEN ""
    ELSE IF cs[c].err # "" THEN cs[c].err
    ELSE CtxErr(cs, cs[c].parent)

CtxDone(cs, c) == CtxErr(cs, c) # ""

\* deriving the shutdown context from the input context
ShutdownParent_Input == InputCtx

\* the parent of the shutdown context: context.Background()
ShutdownParent == Background

\* context.WithTimeout(parent, d): the deadline has already passed when d <= 0
WithTimeout(cs, id, parent, d) ==
    [c \in DOMAIN cs \cup {id} |->
        IF c = id
        THEN [parent |-> parent, deadline |-> <<d>>,
              err |-> IF d <= 0 THEN "deadline exceeded" ELSE ""]
        ELSE cs[c]]

\* the cancel function of a context
Cancel(cs, c) ==
    IF cs[c].err = "" THEN [cs EXCEPT ![c].err = "canceled"] ELSE cs

----------------------------------------------------------------------------
(* Pieces of Server.Run *)

\* formatting the PreRun error with %v instead of %w
WrapPreRun_NoWrap(e) == ErrorsNew(<<"pre-run error: ">> \o e.msg)

WrapPreRun(e) == Errorf(<<"pre-run error: ">>, e)

WrapRun(index, e) == Errorf(<<"process ", ToString(index), " error: ">>, e)

\* goroutines that all read the loop variable after the loop has ended
ReportedIndex_Captured(i) == GoIndex(Len(processes))

\* the index the goroutine launched at position i reports
ReportedIndex(i) == GoIndex(i)

\* a Shutdown loop that starts one entry too low
FirstShutdown_OffByOne(n) == n - 1

\* the Shutdown loop: i := len - 1; i >= 0; i--
FirstShutdown(n) == n

\* a Shutdown loop that calls the last process a second time
NextShutdown_RetryOnce(i) == IF i = Len(processes) /\ Len(sdLog) = 1 THEN i ELSE i - 1

NextShutdown(i) == i - 1

\* a Shutdown loop that walks the list forwards
ShutdownPick_Forward(list, i) == list[Len(list) - i + 1]

\* p := s.processes[i]
ShutdownPick(list, i) == list[i]

\* the context handed to p.Shutdown
ShutdownArg(i) == ShutdownCtx

\* recording every Shutdown error, the last one winning
RecordShutdownErr_Overwrite(cur, shutdownErr) == shutdownErr

\* recording the first Shutdown error wrapped in a message
RecordShutdownErr_Wrapped(cur, shutdownErr) ==
    IF cur = NoError THEN Errorf(<<"shutdown error: ">>, shutdownErr) ELSE cur

\* logging a Shutdown error without recording it
RecordShutdownErr_Dropped(cur, shutdownErr) == cur

\* if err == nil { err = shutdownErr }
RecordShutdownErr(cur, shutdownErr) == IF cur = NoError THEN shutdownErr ELSE cur

\* a Shutdown loop that stops at the first error
ShutdownContinues_FailFast(e) == e = NoError

\* whether the Shutdown loop goes on after a Shutdown returned e
ShutdownContinues(e) == TRUE

\* a coordinator that waits for its goroutines before it returns
ReturnReady_Joined(gs) == \A p \in AllNames : gs[p] # "running"

\* lines 195-198: after the Shutdown loop nothing waits for the goroutines
\* (no sync.WaitGroup, no second receive from errCh)
ReturnReady(gs) == TRUE

\* a PreRun loop that leaves out the last process
PreRunLoopEnds_SkipLast(list, i) == i >= Len(list)

\* the range loop of lines 145-149 ends after the last process
PreRunLoopEnds(list, i) == i > Len(list)

\* a PreRun loop that walks the list backwards
PreRunPick_Backward(list, i) == list[Len(list) - i + 1]

\* for _, p := range s.processes
PreRunPick(list, i) == list[i]

\* a PreRun loop that goes on after an error
PreRunContinues_Ignoring(e) == TRUE

\* whether the PreRun loop goes on after a PreRun returned e
PreRunContinues(e) == e = NoError

\* a select that records ctx.Err() when ctx.Done fires
ErrOnCtxDone_CtxErr == ErrorsNew(<<"context canceled">>)

\* what the select leaves in err when ctx.Done fires
ErrOnCtxDone == NoError

\* a coordinator that stops starting up once the input context is done
StartupProceeds_WhileLive(cs) == ~CtxDone(cs, InputCtx)

\* lines 144-171 read no ctx.Err() and no ctx.Done(): the PreRun loop, the
\* launch loop and the sleep go on whatever the state of the input context
StartupProceeds(cs) == TRUE

\* a splash displayed without waiting for the launch loop
SplashReady_BeforeLaunch(list, i) == TRUE

\* displaySplash comes after the launch loop: server.go lines 165-171
SplashReady(list, i) == i > Len(list)

\* a goroutine that sends whatever process.Run returned
SendsToErrCh_Always(e) == TRUE

\* what a goroutine does with the result of process.Run
SendsToErrCh(e) == e # NoError

\* an error channel with room for one error
ErrChCap_One(list) == 1

\* errCh := make(chan error, len(s.processes))
ErrChCap(list) == Len(list)

\* a returned value that is an error
IsErr(e) == e \notin {NotCalled, Pending, NoError}

Faults ==
    Cardinality({ p \in AllNames : IsErr(runRes[p]) })
    + Cardinality({ p \in AllNames : IsErr(sdRes[p]) })

\* what a call of a phase of process p may return
Outcomes(phase, p) ==
    {NoError} \cup (IF Faults < faultBudget THEN {ProcErr(phase, p)} ELSE {})

----------------------------------------------------------------------------
----------------------------------------------------------------------------
(* The Run of the system processes *)

\* the servers whose Run blocks in Serve or ListenAndServe
ServerNames == { systemProcesses[i] : i \in 1..Len(systemProcesses) }

\* servers whose Run watches its context
ServeReturns_OnCtxDone(p) == CtxDone(ctxs, InputCtx)

\* Serve and ListenAndServe return, without an error to report, once Shutdown
\* has stopped the server; Run does not read its context
ServeReturns(p) == sdRes[p] # NotCalled

\* a telemetry Run that also returns once the service has been shut down
TelemetryRunReturns_OnShutdown ==
    CtxDone(ctxs, InputCtx) \/ sdRes[TelemetryName] # NotCalled

\* telemetry.Service.Run: <-ctx.Done(); return nil
TelemetryRunReturns == CtxDone(ctxs, InputCtx)

RunMayStop(p) ==
    IF p = TelemetryName THEN TelemetryRunReturns
    ELSE IF p \in ServerNames THEN ServeReturns(p)
    ELSE TRUE

\* a listener that cannot be opened or fails while serving
RunMayFail(p) ==
    IF p = TelemetryName THEN FALSE
    ELSE IF p \in ServerNames THEN sdRes[p] = NotCalled
    ELSE TRUE

----------------------------------------------------------------------------
\* the system processes as their constructors leave them: grpc.NewServer sets
\* no server (PreRun does), gateway, metrics and pprof NewServer make an
\* http.Server that does not listen yet; telemetry.NewService sets no component
NoComponents ==
    [tracer |-> "nil", meter |-> "nil", otelProvider |-> "nil", profiler |-> "nil",
     tracerProvider |-> "nil"]

Constructed ==
    /\ server = [p \in ServerNames |-> IF p = "grpc" THEN "nil" ELSE "new"]
    /\ registry = {}
    /\ telemetryService = NoComponents
    /\ calls = <<>>
    /\ now = 0
    /\ timer = <<>>

\* nothing of Run has happened
NotStarted ==
    /\ ctxs = [c \in {InputCtx} |-> [parent |-> Background, deadline |-> <<>>, err |-> ""]]
    /\ errCh = <<>>
    /\ err = NoError
    /\ retval = NotCalled
    /\ g = [p \in AllNames |-> "none"]
    /\ preRunRes = [p \in AllNames |-> NotCalled]
    /\ runRes = [p \in AllNames |-> NotCalled]
    /\ sdRes = [p \in AllNames |-> NotCalled]
    /\ sdLog = <<>>
    /\ cause = "none"
    /\ splashCount = 0
    /\ Constructed

\* a Server built by NewServer with WithProcesses, WithCloseTimeout and, when
\* telemetry is on, WithTracingBackend
Init ==
    /\ processes \in CustomLists
    /\ telemetryEnabled \in BOOLEAN
    /\ closeTimeout \in {0, 1}
    /\ services = <<>>
    /\ grpcUnaryServerInterceptors = <<>>
    /\ grpcStreamServerInterceptors = <<>>
    /\ cfgTelemetry = [DefaultTelemetry EXCEPT !.TracingEnabled = telemetryEnabled]
    /\ opts = <<>>
    /\ faultBudget = MaxFaults
    /\ pc = "idle"
    /\ idx = 0
    /\ NotStarted

\* a Server built with at least one custom process; at most one Run or
\* Shutdown call fails
InitCustom ==
    /\ processes \in { SubSeq(CustomNames, 1, n) : n \in 1..MaxCustomRun }
    /\ telemetryEnabled \in BOOLEAN
    /\ closeTimeout = DefaultCloseTimeout
    /\ services = <<>>
    /\ grpcUnaryServerInterceptors = <<>>
    /\ grpcStreamServerInterceptors = <<>>
    /\ cfgTelemetry = DefaultTelemetry
    /\ opts = <<>>
    /\ faultBudget = 1
    /\ pc = "idle"
    /\ idx = 0
    /\ NotStarted

\* NewServer has made s := &Server{cfg: config.NewConfig()} and applied no option
InitNew ==
    /\ processes = <<>>
    /\ telemetryEnabled = FALSE
    /\ closeTimeout = DefaultCloseTimeout
    /\ services = <<>>
    /\ grpcUnaryServerInterceptors = <<>>
    /\ grpcStreamServerInterceptors = <<>>
    /\ cfgTelemetry = DefaultTelemetry
    /\ opts = <<>>
    /\ faultBudget = 0
    /\ pc = "new"
    /\ idx = 0
    /\ NotStarted

\* opt(s) for one option: src/server/option.go
Apply(o) ==
    /\ pc = "new"
    /\ idx < MaxOpts
    /\ opts' = Append(opts, o)
    /\ idx' = idx + 1
    /\ services' = IF o.name = "WithServices" THEN WithServices(services, o.arg)
                   ELSE services
    /\ processes' = IF o.name = "WithProcesses" THEN WithProcesses(processes, o.arg)
                    ELSE processes
    /\ grpcUnaryServerInterceptors' =
            IF o.name = "WithGRPCUnaryInterceptors"
            THEN WithGRPCUnaryInterceptors(grpcUnaryServerInterceptors, o.arg)
            ELSE grpcUnaryServerInterceptors
    /\ grpcStreamServerInterceptors' =
            IF o.name = "WithGRPCStreamInterceptors"
            THEN WithGRPCStreamInterceptors(grpcStreamServerInterceptors, o.arg)
            ELSE grpcStreamServerInterceptors
    /\ closeTimeout' =
            IF o.name = "WithCloseTimeout" THEN WithCloseTimeout(closeTimeout, o.arg)
            ELSE IF o.name = "WithConfig" THEN ZeroCloseTimeout
            ELSE closeTimeout
    /\ telemetryEnabled' = IF o.name \in TelemetryOptions THEN TRUE ELSE telemetryEnabled
    /\ cfgTelemetry' =
            IF o.name = "WithTracingBackend"
            THEN [cfgTelemetry EXCEPT !.TracingEnabled = TRUE]
            ELSE IF o.name = "WithMetricsBackend"
            THEN [cfgTelemetry EXCEPT !.MetricsEnabled = TRUE, !.MetricsBackend = o.arg]
            ELSE IF o.name = "WithConfig" THEN ZeroTelemetry
            ELSE cfgTelemetry
    /\ UNCHANGED <<pc, ctxs, errCh, err, retval, g, preRunRes, runRes, sdRes, sdLog,
                   cause, splashCount, faultBudget, internals>>

\* one iteration of the loop of NewServer: server.go lines 75-77
ApplyOption ==
    \/ \E a \in ServiceArgs : Apply([name |-> "WithServices", arg |-> a])
    \/ \E a \in ProcessArgs(processes) : Apply([name |-> "WithProcesses", arg |-> a])
    \/ \E a \in InterceptorArgs : Apply([name |-> "WithGRPCUnaryInterceptors", arg |-> a])
    \/ \E a \in InterceptorArgs : Apply([name |-> "WithGRPCStreamInterceptors", arg |-> a])
    \/ \E d \in {0, 1} : Apply([name |-> "WithCloseTimeout", arg |-> d])
    \/ Apply([name |-> "WithTelemetry", arg |-> <<>>])
    \/ Apply([name |-> "WithTracingBackend", arg |-> "otlp"])
    \/ \E b \in {"prometheus", "otlp"} : Apply([name |-> "WithMetricsBackend", arg |-> b])
    \/ Apply([name |-> "WithConfig", arg |-> <<>>])

\* return s: server.go line 79
NewServerReturn ==
    /\ pc = "new"
    /\ pc' = "idle"
    /\ idx' = 0
    /\ opts' = <<>>
    /\ UNCHANGED <<processes, telemetryEnabled, closeTimeout, ctxs, errCh, err, retval,
                   g, preRunRes, runRes, sdRes, sdLog, cause, splashCount, interceptors,
                   services, cfgTelemetry, faultBudget, internals>>

\* the caller cancels the input context (at any time)
CancelInput ==
    /\ ctxs[InputCtx].err = ""
    /\ ctxs' = Cancel(ctxs, InputCtx)
    /\ UNCHANGED <<processes, telemetryEnabled, closeTimeout, pc, idx, errCh, err,
                   retval, g, preRunRes, runRes, sdRes, sdLog, cause, splashCount>>
    /\ UNCHANGED <<interceptors, fixed, internals>>

\* the timer of the shutdown context fires
ShutdownDeadline ==
    /\ ShutdownCtx \in DOMAIN ctxs
    /\ ctxs[ShutdownCtx].err = ""
    /\ ctxs' = [ctxs EXCEPT ![ShutdownCtx].err = "deadline exceeded"]
    /\ UNCHANGED <<processes, telemetryEnabled, closeTimeout, pc, idx, errCh, err,
                   retval, g, preRunRes, runRes, sdRes, sdLog, cause, splashCount>>
    /\ UNCHANGED <<interceptors, fixed, internals>>

\* Run is called: lines 84-143
RunAssemble ==
    /\ pc = "idle"
    /\ processes' = AssembledProcesses(processes, telemetryEnabled)
    /\ pc' = "prerun"
    /\ idx' = 1
    /\ grpcUnaryServerInterceptors' =
            IF telemetryEnabled
            THEN addGRPCInterceptors(grpcUnaryServerInterceptors,
                                     GetUnaryInterceptors(cfgTelemetry))
            ELSE grpcUnaryServerInterceptors
    /\ grpcStreamServerInterceptors' =
            IF telemetryEnabled
            THEN addGRPCInterceptors(grpcStreamServerInterceptors,
                                     GetStreamInterceptors(cfgTelemetry))
            ELSE grpcStreamServerInterceptors
    /\ UNCHANGED <<telemetryEnabled, closeTimeout, ctxs, errCh, err, retval, g,
                   preRunRes, runRes, sdRes, sdLog, cause, splashCount, fixed,
                   internals>>

\* one iteration of the PreRun loop: lines 145-149
PreRunStep ==
    /\ pc = "prerun"
    /\ ~PreRunLoopEnds(processes, idx)
    /\ StartupProceeds(ctxs)
    /\ \E e \in {NoError, ProcErr("PreRun", PreRunPick(processes, idx))} :
        /\ preRunRes' = [preRunRes EXCEPT ![PreRunPick(processes, idx)] = e]
        /\ IF PreRunContinues(e)
           THEN /\ idx' = idx + 1
                /\ UNCHANGED <<pc, retval>>
           ELSE /\ pc' = "done"
                /\ retval' = WrapPreRun(e)
                /\ UNCHANGED idx
    /\ UNCHANGED <<processes, telemetryEnabled, closeTimeout, ctxs, errCh, err, g,
                   runRes, sdRes, sdLog, cause, splashCount>>
    /\ UNCHANGED <<interceptors, fixed, internals>>

\* the PreRun loop ends; errCh is made: line 152
PreRunDone ==
    /\ pc = "prerun"
    /\ PreRunLoopEnds(processes, idx)
    /\ pc' = "launch"
    /\ idx' = 1
    /\ errCh' = <<>>
    /\ UNCHANGED <<processes, telemetryEnabled, closeTimeout, ctxs, err, retval, g,
                   preRunRes, runRes, sdRes, sdLog, cause, splashCount>>
    /\ UNCHANGED <<interceptors, fixed, internals>>

\* one iteration of the launch loop: the go statement, lines 155-165; the
\* goroutine starts and calls process.Run (lines 160-161)
Launch ==
    /\ pc = "launch"
    /\ idx <= Len(processes)
    /\ StartupProceeds(ctxs)
    /\ g' = [g EXCEPT ![processes[idx]] = "running"]
    /\ runRes' = [runRes EXCEPT ![processes[idx]] = Pending]
    /\ idx' = idx + 1
    /\ UNCHANGED <<processes, telemetryEnabled, closeTimeout, pc, ctxs, errCh, err,
                   retval, preRunRes, sdRes, sdLog, cause, splashCount>>
    /\ UNCHANGED <<interceptors, fixed, internals>>

\* time.Sleep(StartupDelay) and displaySplash: lines 168-171
SleepAndSplash ==
    /\ pc = "launch"
    /\ SplashReady(processes, idx)
    /\ StartupProceeds(ctxs)
    /\ splashCount' = splashCount + 1
    /\ pc' = "select"
    /\ UNCHANGED <<processes, telemetryEnabled, closeTimeout, idx, ctxs, errCh, err,
                   retval, g, preRunRes, runRes, sdRes, sdLog, cause>>
    /\ UNCHANGED <<interceptors, fixed, internals>>

\* what the goroutine of position i does when process.Run has returned e:
\* lines 161-163; a send into a full channel blocks the goroutine
RunReturns(i, e) ==
    /\ g[processes[i]] = "running"
    /\ runRes' = [runRes EXCEPT ![processes[i]] = e]
    /\ IF ~SendsToErrCh(e)
       THEN /\ g' = [g EXCEPT ![processes[i]] = "done"]
            /\ UNCHANGED errCh
       ELSE IF Len(errCh) < ErrChCap(processes)
       THEN /\ g' = [g EXCEPT ![processes[i]] = "done"]
            /\ errCh' = Append(errCh, WrapRun(ReportedIndex(i), e))
       ELSE /\ g' = [g EXCEPT ![processes[i]] = "blocked"]
            /\ UNCHANGED errCh
    /\ UNCHANGED <<processes, telemetryEnabled, closeTimeout, pc, idx, ctxs, err,
                   retval, preRunRes, sdRes, sdLog, cause, splashCount>>
    /\ UNCHANGED <<interceptors, fixed, internals>>

\* the Run of any Process returns, at any time, nil or an error
GoRunReturn(i) == \E e \in Outcomes("Run", processes[i]) : RunReturns(i, e)

\* the Run of a system process returns nil (a custom process: at any time)
ProcRunStop(i) ==
    /\ RunMayStop(processes[i])
    /\ RunReturns(i, NoError)

\* the Run of a system process returns an error (a custom process: at any time)
ProcRunFail(i) ==
    /\ RunMayFail(processes[i])
    /\ \E e \in Outcomes("Run", processes[i]) \ {NoError} : RunReturns(i, e)

\* the select, case <-ctx.Done(): lines 176-177; then line 183
SelectCtxDone ==
    /\ pc = "select"
    /\ CtxDone(ctxs, InputCtx)
    /\ err' = ErrOnCtxDone
    /\ cause' = "ctx"
    /\ ctxs' = WithTimeout(ctxs, ShutdownCtx, ShutdownParent, closeTimeout)
    /\ pc' = "shutdown"
    /\ idx' = FirstShutdown(Len(processes))
    /\ UNCHANGED <<processes, telemetryEnabled, closeTimeout, errCh, retval, g,
                   preRunRes, runRes, sdRes, sdLog, splashCount>>
    /\ UNCHANGED <<interceptors, fixed, internals>>

\* the select, case err = <-errCh: lines 178-179; then line 183
SelectErrCh ==
    /\ pc = "select"
    /\ errCh # <<>>
    /\ err' = Head(errCh)
    /\ errCh' = Tail(errCh)
    /\ cause' = "err"
    /\ ctxs' = WithTimeout(ctxs, ShutdownCtx, ShutdownParent, closeTimeout)
    /\ pc' = "shutdown"
    /\ idx' = FirstShutdown(Len(processes))
    /\ UNCHANGED <<processes, telemetryEnabled, closeTimeout, retval, g, preRunRes,
                   runRes, sdRes, sdLog, splashCount>>
    /\ UNCHANGED <<interceptors, fixed, internals>>

\* p.Shutdown(shutdownCtx) is called: lines 187-189
ShutdownCall ==
    /\ pc = "shutdown"
    /\ idx >= 1
    /\ sdRes' = [sdRes EXCEPT ![ShutdownPick(processes, idx)] = Pending]
    /\ sdLog' = Append(sdLog, [proc |-> ShutdownPick(processes, idx),
                               ctx |-> ShutdownArg(idx)])
    /\ pc' = "inShutdown"
    /\ UNCHANGED <<processes, telemetryEnabled, closeTimeout, idx, ctxs, errCh, err,
                   retval, g, preRunRes, runRes, cause, splashCount>>
    /\ UNCHANGED <<interceptors, fixed, internals>>

\* p.Shutdown returns: lines 189-194
ShutdownReturn ==
    /\ pc = "inShutdown"
    /\ \E e \in Outcomes("Shutdown", sdLog[Len(sdLog)].proc) :
        /\ sdRes' = [sdRes EXCEPT ![sdLog[Len(sdLog)].proc] = e]
        /\ err' = IF e # NoError THEN RecordShutdownErr(err, e) ELSE err
        /\ IF ShutdownContinues(e)
           THEN /\ idx' = NextShutdown(idx)
                /\ pc' = "shutdown"
           ELSE /\ idx' = 0
                /\ pc' = "shutdown"
    /\ UNCHANGED <<processes, telemetryEnabled, closeTimeout, ctxs, errCh, retval, g,
                   preRunRes, runRes, sdLog, cause, splashCount>>
    /\ UNCHANGED <<interceptors, fixed, internals>>

\* the Shutdown loop ends; return err, and the deferred cancel(): lines 184, 197-198
Return ==
    /\ pc = "shutdown"
    /\ idx < 1
    /\ ReturnReady(g)
    /\ retval' = err
    /\ ctxs' = Cancel(ctxs, ShutdownCtx)
    /\ pc' = "done"
    /\ UNCHANGED <<processes, telemetryEnabled, closeTimeout, idx, errCh, err,
                   g, preRunRes, runRes, sdRes, sdLog, cause, splashCount>>
    /\ UNCHANGED <<interceptors, fixed, internals>>

Next ==
    \/ CancelInput
    \/ ShutdownDeadline
    \/ RunAssemble
    \/ PreRunStep
    \/ PreRunDone
    \/ Launch
    \/ SleepAndSplash
    \/ \E i \in 1..Len(processes) : GoRunReturn(i)
    \/ SelectCtxDone
    \/ SelectErrCh
    \/ ShutdownCall
    \/ ShutdownReturn
    \/ Return

Spec == Init /\ [][Next]_vars

\* the coordinator with the Run of the system processes as they are written
NextProc ==
    \/ CancelInput
    \/ ShutdownDeadline
    \/ RunAssemble
    \/ PreRunStep
    \/ PreRunDone
    \/ Launch
    \/ SleepAndSplash
    \/ \E i \in 1..Len(processes) : ProcRunStop(i)
    \/ \E i \in 1..Len(processes) : ProcRunFail(i)
    \/ SelectCtxDone
    \/ SelectErrCh
    \/ ShutdownCall
    \/ ShutdownReturn
    \/ Return

SpecProc == Init /\ [][NextProc]_vars

\* the same program, started from a Server that has custom processes
SpecCustom == InitCustom /\ [][Next]_vars

\* the same, where the goroutine that called Run keeps running its Shutdown
\* loop and every Shutdown call returns
SpecFair ==
    /\ SpecCustom
    /\ WF_vars(ShutdownCall)
    /\ WF_vars(ShutdownReturn)
    /\ WF_vars(Return)

\* a Server with the system processes only; at most one Run or Shutdown fails
InitEntry ==
    /\ processes = <<>>
    /\ telemetryEnabled = FALSE
    /\ closeTimeout = DefaultCloseTimeout
    /\ services = <<>>
    /\ grpcUnaryServerInterceptors = <<>>
    /\ grpcStreamServerInterceptors = <<>>
    /\ cfgTelemetry = DefaultTelemetry
    /\ opts = <<>>
    /\ faultBudget = 1
    /\ pc = "idle"
    /\ idx = 0
    /\ NotStarted

\* a scheduler that enters process.Run only while Shutdown was not invoked
RunEntry_BeforeShutdown(p) == sdRes[p] = NotCalled

\* nothing orders the start of a goroutine with respect to the Shutdown loop
RunEntry(p) == TRUE

\* the go statement alone, lines 155-165: the goroutine exists and has not yet
\* been scheduled
LaunchGo ==
    /\ pc = "launch"
    /\ idx <= Len(processes)
    /\ StartupProceeds(ctxs)
    /\ g' = [g EXCEPT ![processes[idx]] = "launched"]
    /\ idx' = idx + 1
    /\ UNCHANGED <<processes, telemetryEnabled, closeTimeout, pc, ctxs, errCh, err,
                   retval, preRunRes, runRes, sdRes, sdLog, cause, splashCount>>
    /\ UNCHANGED <<interceptors, fixed, internals>>

\* the goroutine of position i is scheduled and calls process.Run: lines 160-161
RunEnter(i) ==
    /\ g[processes[i]] = "launched"
    /\ RunEntry(processes[i])
    /\ g' = [g EXCEPT ![processes[i]] = "running"]
    /\ runRes' = [runRes EXCEPT ![processes[i]] = Pending]
    /\ UNCHANGED <<processes, telemetryEnabled, closeTimeout, pc, idx, ctxs, errCh, err,
                   retval, preRunRes, sdRes, sdLog, cause, splashCount>>
    /\ UNCHANGED <<interceptors, fixed, internals>>

\* the coordinator with the go statement and the entry into Run as two steps
NextEntry ==
    \/ CancelInput
    \/ ShutdownDeadline
    \/ RunAssemble
    \/ PreRunStep
    \/ PreRunDone
    \/ LaunchGo
    \/ \E i \in 1..Len(processes) : RunEnter(i)
    \/ SleepAndSplash
    \/ \E i \in 1..Len(processes) : GoRunReturn(i)
    \/ SelectCtxDone
    \/ SelectErrCh
    \/ ShutdownCall
    \/ ShutdownReturn
    \/ Return

SpecEntry == InitEntry /\ [][NextEntry]_vars

----------------------------------------------------------------------------
(* PreRun and Shutdown of the servers, called directly *)

\* what a call that panicked has returned
Panicked == [msg |-> <<"<panic>">>, cause |-> <<>>]

\* metrics.AppVersion, the collector RegisterAppMetrics registers
AppVersion == "app_version"

\* prometheus.MustRegister panics when the collector is already registered
MustRegisterPanics(reg, c) == c \in reg

\* prometheus.MustRegister, when it does not panic
MustRegister(reg, c) == reg \cup {c}

\* the registry after the Shutdown of the metrics server: Shutdown stops the
\* http.Server and does not call UnregisterAppMetrics
AfterShutdown(reg) == reg

\* the field server after PreRun: grpc PreRun makes a new grpc.Server and
\* stores it; the PreRun of the other servers returns nil and does nothing
ServerAfterPreRun(p, cur) == IF p = "grpc" THEN "ready" ELSE cur

\* the field server after Shutdown: GracefulStop or Stop for grpc,
\* http.Server.Shutdown for the others
ServerAfterShutdown(p, cur) == IF p = "grpc" THEN "stopped" ELSE "closed"

\* the servers of a Server, constructed; a caller is about to use them
InitSetup ==
    /\ processes = systemProcesses
    /\ telemetryEnabled = FALSE
    /\ closeTimeout = DefaultCloseTimeout
    /\ services = <<>>
    /\ grpcUnaryServerInterceptors = <<>>
    /\ grpcStreamServerInterceptors = <<>>
    /\ cfgTelemetry = DefaultTelemetry
    /\ opts = <<>>
    /\ faultBudget = 0
    /\ pc = "caller"
    /\ idx = 0
    /\ NotStarted

\* p.PreRun(ctx) of a server
SysPreRun(p) ==
    /\ pc = "caller"
    /\ Len(calls) < MaxCalls
    /\ IF p = "metrics" /\ MustRegisterPanics(registry, AppVersion)
       THEN /\ pc' = "panicked"
            /\ calls' = Append(calls, [on |-> p, op |-> "PreRun", res |-> Panicked])
            /\ preRunRes' = [preRunRes EXCEPT ![p] = Panicked]
            /\ UNCHANGED <<registry, server>>
       ELSE /\ registry' = IF p = "metrics" THEN MustRegister(registry, AppVersion)
                           ELSE registry
            /\ server' = [server EXCEPT ![p] = ServerAfterPreRun(p, server[p])]
            /\ calls' = Append(calls, [on |-> p, op |-> "PreRun", res |-> NoError])
            /\ preRunRes' = [preRunRes EXCEPT ![p] = NoError]
            /\ UNCHANGED pc
    /\ UNCHANGED <<processes, telemetryEnabled, closeTimeout, idx, ctxs, errCh, err,
                   retval, g, runRes, sdRes, sdLog, cause, splashCount, interceptors,
                   fixed, telemetryService, now, timer>>

\* p.Shutdown(ctx) of a server whose PreRun has returned nil, nothing being
\* in the way of a graceful stop
SysShutdown(p) ==
    /\ pc = "caller"
    /\ Len(calls) < MaxCalls
    /\ preRunRes[p] = NoError
    /\ registry' = IF p = "metrics" THEN AfterShutdown(registry) ELSE registry
    /\ server' = [server EXCEPT ![p] = ServerAfterShutdown(p, server[p])]
    /\ calls' = Append(calls, [on |-> p, op |-> "Shutdown", res |-> NoError])
    /\ sdRes' = [sdRes EXCEPT ![p] = NoError]
    /\ UNCHANGED <<processes, telemetryEnabled, closeTimeout, pc, idx, ctxs, errCh, err,
                   retval, g, preRunRes, runRes, sdLog, cause, splashCount,
                   interceptors, fixed, telemetryService, now, timer>>

NextSetup ==
    \/ \E p \in ServerNames : SysPreRun(p)
    \/ \E p \in ServerNames : SysShutdown(p)

SpecSetup == InitSetup /\ [][NextSetup]_vars

----------------------------------------------------------------------------
(* The Shutdown of the servers, with time: the Shutdown loop of Server.Run
   over grpc, gateway, metrics and pprof, each Shutdown as it is written *)

\* time runs as far as the last timer set can reach
Horizon == 2 * MaxTimeout

InnerCtx == "inner"

Min(a, b) == IF a <= b THEN a ELSE b

\* context.WithTimeout(parent, d) called at time t: the deadline is t + d or
\* that of the parent, whichever is earlier
WithTimeoutAt(cs, id, parent, t, d) ==
    [c \in DOMAIN cs \cup {id} |->
        IF c = id
        THEN [parent |-> parent,
              deadline |-> <<IF parent # Background /\ cs[parent].deadline # <<>>
                             THEN Min(t + d, cs[parent].deadline[1]) ELSE t + d>>,
              err |-> IF d <= 0 THEN "deadline exceeded" ELSE ""]
        ELSE cs[c]]

\* the contexts at time t: those whose deadline has come are done
Expire(cs, t) ==
    [c \in DOMAIN cs |->
        IF cs[c].err = "" /\ cs[c].deadline # <<>> /\ cs[c].deadline[1] <= t
        THEN [cs[c] EXCEPT !.err = "deadline exceeded"]
        ELSE cs[c]]

\* a gRPC Shutdown whose select has no timeout case
TimerFired_Never(t, tm) == FALSE

\* case <-time.After(s.closeTimeout): grpc/server_test.go line 714
TimerFired(t, tm) == tm # <<>> /\ t >= tm[1]

\* the servers whose Shutdown wraps its context in WithTimeout(ctx, closeTimeout)
InnerTimeout == {"gateway", "metrics"}

\* the context http.Server.Shutdown of server p is given
HttpCtx(p) == IF p \in InnerTimeout THEN InnerCtx ELSE ShutdownCtx

\* ctx.Err() as an error value
CtxError(cs, c) == ErrorsNew(<<"context ", CtxErr(cs, c)>>)

\* what Shutdown of server p returns when http.Server.Shutdown returned e
WrapShutdown(p, e) ==
    Errorf(<<CASE p = "gateway" -> "gateway server shutdown error: "
               [] p = "metrics" -> "metrics server shutdown error: "
               [] p = "pprof" -> "pprof server shutdown error: ">>, e)

\* the process whose Shutdown is running
Stopping == sdLog[Len(sdLog)].proc

\* the select of Server.Run has just fired on ctx.Done at time 0: every server
\* is serving, and the shutdown context and the loop variable are set
InitStop ==
    /\ processes = systemProcesses
    /\ telemetryEnabled = FALSE
    /\ closeTimeout \in 0..MaxTimeout
    /\ services = <<>>
    /\ grpcUnaryServerInterceptors = <<>>
    /\ grpcStreamServerInterceptors = <<>>
    /\ cfgTelemetry = DefaultTelemetry
    /\ opts = <<>>
    /\ faultBudget = 0
    /\ pc = "shutdown"
    /\ idx = FirstShutdown(Len(processes))
    /\ ctxs = WithTimeout(
                [c \in {InputCtx} |->
                    [parent |-> Background, deadline |-> <<>>, err |-> "canceled"]],
                ShutdownCtx, ShutdownParent, closeTimeout)
    /\ errCh = <<>>
    /\ err = ErrOnCtxDone
    /\ retval = NotCalled
    /\ g = [p \in AllNames |-> IF p \in ServerNames THEN "running" ELSE "none"]
    /\ preRunRes = [p \in AllNames |-> IF p \in ServerNames THEN NoError ELSE NotCalled]
    /\ runRes = [p \in AllNames |-> IF p \in ServerNames THEN Pending ELSE NotCalled]
    /\ sdRes = [p \in AllNames |-> NotCalled]
    /\ sdLog = <<>>
    /\ cause = "ctx"
    /\ splashCount = 1
    /\ server = [p \in ServerNames |-> "serving"]
    /\ registry = {AppVersion}
    /\ telemetryService = NoComponents
    /\ calls = <<>>
    /\ now = 0
    /\ timer = <<>>

\* p.Shutdown(shutdownCtx) is called and starts stopping its server: grpc
\* starts GracefulStop in a goroutine and a timer of closeTimeout; gateway and
\* metrics derive a context with the timeout closeTimeout; pprof passes the
\* context it was given
StopCall ==
    /\ pc = "shutdown"
    /\ idx >= 1
    /\ sdRes' = [sdRes EXCEPT ![ShutdownPick(processes, idx)] = Pending]
    /\ sdLog' = Append(sdLog, [proc |-> ShutdownPick(processes, idx),
                               ctx |-> ShutdownArg(idx)])
    /\ pc' = "inShutdown"
    /\ server' = [server EXCEPT ![ShutdownPick(processes, idx)] = "stopping"]
    /\ timer' = IF ShutdownPick(processes, idx) = "grpc" THEN <<now + closeTimeout>>
                ELSE timer
    /\ ctxs' = IF ShutdownPick(processes, idx) \in InnerTimeout
               THEN WithTimeoutAt(ctxs, InnerCtx, ShutdownCtx, now, closeTimeout)
               ELSE ctxs
    /\ UNCHANGED <<processes, telemetryEnabled, closeTimeout, idx, errCh, err, retval,
                   g, preRunRes, runRes, cause, splashCount, interceptors, fixed,
                   registry, telemetryService, calls, now>>

\* the connections of the server being stopped have all ended
Drained ==
    /\ pc = "inShutdown"
    /\ server[Stopping] = "stopping"
    /\ server' = [server EXCEPT ![Stopping] = "drained"]
    /\ UNCHANGED <<processes, telemetryEnabled, closeTimeout, pc, idx, ctxs, errCh, err,
                   retval, g, preRunRes, runRes, sdRes, sdLog, cause, splashCount,
                   interceptors, fixed, registry, telemetryService, calls, now, timer>>

\* the Shutdown that is running returns e, its server left in state sv, and
\* the loop of Server.Run goes on: lines 189-195
StopReturns(e, sv) ==
    /\ sdRes' = [sdRes EXCEPT ![Stopping] = e]
    /\ server' = [server EXCEPT ![Stopping] = sv]
    /\ err' = IF e # NoError THEN RecordShutdownErr(err, e) ELSE err
    /\ idx' = NextShutdown(idx)
    /\ pc' = "shutdown"
    /\ UNCHANGED <<processes, telemetryEnabled, closeTimeout, errCh, retval, g,
                   preRunRes, runRes, sdLog, cause, splashCount, interceptors, fixed,
                   registry, telemetryService, calls, now>>

\* grpc Shutdown, case <-stopped: GracefulStop has returned
GrpcStopped ==
    /\ pc = "inShutdown"
    /\ Stopping = "grpc"
    /\ server["grpc"] = "drained"
    /\ StopReturns(NoError, "stopped")
    /\ UNCHANGED <<ctxs, timer>>

\* grpc Shutdown, case <-time.After(s.closeTimeout): s.server.Stop()
GrpcTimedOut ==
    /\ pc = "inShutdown"
    /\ Stopping = "grpc"
    /\ TimerFired(now, timer)
    /\ StopReturns(NoError, "forced")
    /\ UNCHANGED <<ctxs, timer>>

\* http.Server.Shutdown returns nil: no connection is left (gateway, metrics,
\* pprof); the deferred cancel of the derived context runs
HttpClosed ==
    /\ pc = "inShutdown"
    /\ Stopping # "grpc"
    /\ server[Stopping] = "drained"
    /\ StopReturns(NoError, "closed")
    /\ ctxs' = IF Stopping \in InnerTimeout THEN Cancel(ctxs, InnerCtx) ELSE ctxs
    /\ UNCHANGED timer

\* http.Server.Shutdown returns ctx.Err(): its context is done while
\* connections are left
HttpCtxDone ==
    /\ pc = "inShutdown"
    /\ Stopping # "grpc"
    /\ server[Stopping] = "stopping"
    /\ CtxDone(ctxs, HttpCtx(Stopping))
    /\ StopReturns(WrapShutdown(Stopping, CtxError(ctxs, HttpCtx(Stopping))), "stopping")
    /\ ctxs' = IF Stopping \in InnerTimeout THEN Cancel(ctxs, InnerCtx) ELSE ctxs
    /\ UNCHANGED timer

\* a step of the program that is ready now: code takes no time
Urgent ==
    \/ pc = "shutdown"
    \/ /\ pc = "inShutdown"
       /\ \/ server[Stopping] = "drained"
          \/ Stopping = "grpc" /\ TimerFired(now, timer)
          \/ Stopping # "grpc" /\ CtxDone(ctxs, HttpCtx(Stopping))

\* time passes while the program waits
Tick ==
    /\ now < Horizon
    /\ ~Urgent
    /\ pc = "inShutdown"
    /\ now' = now + 1
    /\ ctxs' = Expire(ctxs, now + 1)
    /\ UNCHANGED <<processes, telemetryEnabled, closeTimeout, pc, idx, errCh, err,
                   retval, g, preRunRes, runRes, sdRes, sdLog, cause, splashCount,
                   interceptors, fixed, server, registry, telemetryService, calls,
                   timer>>

NextStop ==
    \/ StopCall
    \/ Drained
    \/ GrpcStopped
    \/ GrpcTimedOut
    \/ HttpClosed
    \/ HttpCtxDone
    \/ Tick
    \/ Return

SpecStop == InitStop /\ [][NextStop]_vars

\* the same, where time passes and a select that is ready is taken
SpecStopFair ==
    /\ SpecStop
    /\ WF_vars(Tick)
    /\ WF_vars(GrpcStopped)
    /\ WF_vars(GrpcTimedOut)

----------------------------------------------------------------------------
(* The telemetry service: src/internal/telemetry *)

\* the fields Shutdown looks at, in the order of lines 82-108
Components == <<"tracer", "meter", "otelProvider", "profiler">>

\* the configurations under which PreRun returns nil: the backends named are
\* supported ones
TelemetryConfigs ==
    [OTELEnabled : BOOLEAN, OTELTraces : BOOLEAN, OTELMetrics : BOOLEAN,
     TracingEnabled : BOOLEAN, MetricsEnabled : BOOLEAN,
     MetricsBackend : {"prometheus", "otlp"},
     ProfilingEnabled : BOOLEAN, ProfilingBackend : {"pyroscope", "pprof"}]

Set(b) == IF b THEN "set" ELSE "nil"

\* the fields after a PreRun that returned nil (telemetry.go lines 34-67):
\* setupOTEL stores a trace provider in tracer and a meter provider in meter;
\* otherwise setupTracing stores its provider in tracerProvider
\* (tracing.go line 83) and setupMetrics stores a meter provider for the otlp
\* backend only (metrics.go lines 46 and 71); setupProfiling stores a profiler
\* for pyroscope; nothing stores an otelProvider
AfterPreRun(c) ==
    [tracer |-> Set(c.OTELEnabled /\ c.OTELTraces),
     meter |-> Set(IF c.OTELEnabled THEN c.OTELMetrics
                   ELSE c.MetricsEnabled /\ c.MetricsBackend = "otlp"),
     otelProvider |-> "nil",
     profiler |-> Set(c.ProfilingEnabled /\ c.ProfilingBackend = "pyroscope"),
     tracerProvider |-> Set(~c.OTELEnabled /\ c.TracingEnabled)]

\* the error a component returns when stopping it fails
StopErr(c) == ErrorsNew(<<"stop failed: ", c>>)

\* the prefix Shutdown puts before the error of a component
StopPrefix(c) ==
    CASE c = "tracer" -> "trace provider shutdown: "
      [] c = "meter" -> "meter provider shutdown: "
      [] c = "otelProvider" -> "OTEL provider shutdown: "
      [] c = "profiler" -> "profiler shutdown: "

\* errs: the errors appended so far, each with its prefix
RECURSIVE Errs(_)
Errs(log) ==
    IF log = <<>> THEN <<>>
    ELSE (IF Head(log).res # NoError
          THEN <<Errorf(<<StopPrefix(Head(log).on)>>, Head(log).res)>>
          ELSE <<>>)
         \o Errs(Tail(log))

RECURSIVE Texts(_)
Texts(es) == IF es = <<>> THEN <<>> ELSE Head(es).msg \o Texts(Tail(es))

\* lines 110-114: fmt.Errorf("telemetry shutdown errors: %v", errs) wraps nothing
ShutdownResult(es) ==
    IF Len(es) > 0 THEN ErrorsNew(<<"telemetry shutdown errors: ">> \o Texts(es))
    ELSE NoError

\* Shutdown of the telemetry service has been called after a PreRun that
\* returned nil
InitTelemetry ==
    /\ processes = <<TelemetryName>> \o systemProcesses
    /\ telemetryEnabled = TRUE
    /\ closeTimeout = DefaultCloseTimeout
    /\ services = <<>>
    /\ grpcUnaryServerInterceptors = <<>>
    /\ grpcStreamServerInterceptors = <<>>
    /\ cfgTelemetry \in TelemetryConfigs
    /\ opts = <<>>
    /\ faultBudget = 0
    /\ pc = "components"
    /\ idx = 1
    /\ ctxs = [c \in {InputCtx} |-> [parent |-> Background, deadline |-> <<>>, err |-> ""]]
    /\ errCh = <<>>
    /\ err = NoError
    /\ retval = NotCalled
    /\ g = [p \in AllNames |-> "none"]
    /\ preRunRes = [p \in AllNames |-> IF p = TelemetryName THEN NoError ELSE NotCalled]
    /\ runRes = [p \in AllNames |-> NotCalled]
    /\ sdRes = [p \in AllNames |-> IF p = TelemetryName THEN Pending ELSE NotCalled]
    /\ sdLog = <<>>
    /\ cause = "none"
    /\ splashCount = 0
    /\ server = [p \in ServerNames |-> IF p = "grpc" THEN "nil" ELSE "new"]
    /\ registry = {}
    /\ telemetryService = AfterPreRun(cfgTelemetry)
    /\ calls = <<>>
    /\ now = 0
    /\ timer = <<>>

\* one of the four blocks of lines 82-108: a field that is nil is skipped, a
\* field that is set is stopped and its error, if any, appended to errs
TelemetryStop ==
    /\ pc = "components"
    /\ idx <= Len(Components)
    /\ idx' = idx + 1
    /\ IF telemetryService[Components[idx]] = "nil"
       THEN UNCHANGED calls
       ELSE \E e \in {NoError, StopErr(Components[idx])} :
                calls' = Append(calls, [on |-> Components[idx], op |-> "Shutdown",
                                        res |-> e])
    /\ UNCHANGED <<processes, telemetryEnabled, closeTimeout, pc, ctxs, errCh, err,
                   retval, g, preRunRes, runRes, sdRes, sdLog, cause, splashCount,
                   interceptors, fixed, server, registry, telemetryService, now, timer>>

\* lines 110-114
TelemetryShutdownReturn ==
    /\ pc = "components"
    /\ idx > Len(Components)
    /\ sdRes' = [sdRes EXCEPT ![TelemetryName] = ShutdownResult(Errs(calls))]
    /\ pc' = "returned"
    /\ UNCHANGED <<processes, telemetryEnabled, closeTimeout, idx, ctxs, errCh, err,
                   retval, g, preRunRes, runRes, sdLog, cause, splashCount,
                   interceptors, fixed, internals>>

NextTelemetry ==
    \/ TelemetryStop
    \/ TelemetryShutdownReturn

SpecTelemetry == InitTelemetry /\ [][NextTelemetry]_vars

----------------------------------------------------------------------------
(* The Run of the gateway: src/internal/gateway/server.go lines 140-202 *)

Registrars == {"svc1", "svc2", "svc3"}

\* s.registrars: what gateway.WithServices(s.services...) was given
RegistrarLists == UNION { [1..n -> Registrars] : n \in 0..MaxRegistrars }

\* the error RegisterHTTP of a registrar returns when it fails
RegisterErr(r) == ErrorsNew(<<"RegisterHTTP failed: ", r>>)

\* the error of a listener that cannot be opened or that breaks
ListenErr == ErrorsNew(<<"listen failed">>)

\* a registration loop that logs an error and goes on
RegisterContinues_LogOnly(e) == TRUE

\* lines 166-168: an error of RegisterHTTP ends Run
RegisterContinues(e) == e = NoError

WrapRegister(e) == Errorf(<<"failed to register gateway: ">>, e)

WrapServe(e) == Errorf(<<"gateway server error: ">>, e)

\* the goroutine of the gateway has entered Run; PreRun has returned nil
InitGateway ==
    /\ processes = systemProcesses
    /\ telemetryEnabled = FALSE
    /\ closeTimeout = DefaultCloseTimeout
    /\ services \in RegistrarLists
    /\ grpcUnaryServerInterceptors = <<>>
    /\ grpcStreamServerInterceptors = <<>>
    /\ cfgTelemetry = DefaultTelemetry
    /\ opts = <<>>
    /\ faultBudget = 0
    /\ pc = "register"
    /\ idx = 1
    /\ ctxs = [c \in {InputCtx} |-> [parent |-> Background, deadline |-> <<>>, err |-> ""]]
    /\ errCh = <<>>
    /\ err = NoError
    /\ retval = NotCalled
    /\ g = [p \in AllNames |-> IF p = "gateway" THEN "running" ELSE "none"]
    /\ preRunRes = [p \in AllNames |-> IF p = "gateway" THEN NoError ELSE NotCalled]
    /\ runRes = [p \in AllNames |-> IF p = "gateway" THEN Pending ELSE NotCalled]
    /\ sdRes = [p \in AllNames |-> NotCalled]
    /\ sdLog = <<>>
    /\ cause = "none"
    /\ splashCount = 0
    /\ Constructed

\* Run of the gateway returns e
GatewayReturn(e) ==
    /\ runRes' = [runRes EXCEPT !["gateway"] = e]
    /\ g' = [g EXCEPT !["gateway"] = "done"]
    /\ pc' = "returned"

\* one iteration of the loop of lines 165-169
GatewayRegister ==
    /\ pc = "register"
    /\ idx <= Len(services)
    /\ \E e \in {NoError, RegisterErr(services[idx])} :
        /\ calls' = Append(calls, [on |-> services[idx], op |-> "RegisterHTTP", res |-> e])
        /\ IF RegisterContinues(e)
           THEN /\ idx' = idx + 1
                /\ UNCHANGED <<pc, runRes, g>>
           ELSE /\ GatewayReturn(WrapRegister(e))
                /\ UNCHANGED idx
    /\ UNCHANGED <<processes, telemetryEnabled, closeTimeout, ctxs, errCh, err, retval,
                   preRunRes, sdRes, sdLog, cause, splashCount, interceptors, fixed,
                   server, registry, telemetryService, now, timer>>

\* the loop has ended; lines 171-197: the handler is set and ListenAndServe
\* opens the listener and serves
GatewayListen ==
    /\ pc = "register"
    /\ idx > Len(services)
    /\ server' = [server EXCEPT !["gateway"] = "serving"]
    /\ pc' = "serve"
    /\ UNCHANGED <<processes, telemetryEnabled, closeTimeout, idx, ctxs, errCh, err,
                   retval, g, preRunRes, runRes, sdRes, sdLog, cause, splashCount,
                   interceptors, fixed, registry, telemetryService, calls, now, timer>>

\* ListenAndServe cannot open the listener: lines 197-199
GatewayListenFail ==
    /\ pc = "register"
    /\ idx > Len(services)
    /\ GatewayReturn(WrapServe(ListenErr))
    /\ UNCHANGED <<processes, telemetryEnabled, closeTimeout, idx, ctxs, errCh, err,
                   retval, preRunRes, sdRes, sdLog, cause, splashCount, interceptors,
                   fixed, internals>>

\* a Shutdown has closed the server: ListenAndServe returns http.ErrServerClosed
\* and Run returns nil, lines 197-201
GatewayServeClosed ==
    /\ pc = "serve"
    /\ server' = [server EXCEPT !["gateway"] = "closed"]
    /\ GatewayReturn(NoError)
    /\ UNCHANGED <<processes, telemetryEnabled, closeTimeout, idx, ctxs, errCh, err,
                   retval, preRunRes, sdRes, sdLog, cause, splashCount, interceptors,
                   fixed, registry, telemetryService, calls, now, timer>>

\* the listener breaks while serving: lines 197-199
GatewayServeFail ==
    /\ pc = "serve"
    /\ server' = [server EXCEPT !["gateway"] = "closed"]
    /\ GatewayReturn(WrapServe(ListenErr))
    /\ UNCHANGED <<processes, telemetryEnabled, closeTimeout, idx, ctxs, errCh, err,
                   retval, preRunRes, sdRes, sdLog, cause, splashCount, interceptors,
                   fixed, registry, telemetryService, calls, now, timer>>

NextGateway ==
    \/ GatewayRegister
    \/ GatewayListen
    \/ GatewayListenFail
    \/ GatewayServeClosed
    \/ GatewayServeFail

SpecGateway == InitGateway /\ [][NextGateway]_vars

\* NewServer applying its options
NextNew ==
    \/ ApplyOption
    \/ NewServerReturn

SpecNew == InitNew /\ [][NextNew]_vars

----------------------------------------------------------------------------
(* Reading the state *)

Positions == 1..Len(processes)

PreRunFailed == \E p \in AllNames : IsErr(preRunRes[p])

\* Shutdown of p has been invoked
ShutdownInvoked(p) == sdRes[p] # NotCalled

\* Shutdown of p has returned
ShutdownReturned(p) == sdRes[p] \notin {NotCalled, Pending}

----------------------------------------------------------------------------
(* C1: if PreRun of the process at position i fails, PreRun is never invoked on
   a process after i, and Run and Shutdown are invoked on no process at all,
   the processes before i included. *)
C1_PreRunShortCircuit ==
    \A i \in Positions :
        IsErr(preRunRes[processes[i]]) =>
            /\ \A j \in Positions : j > i => preRunRes[processes[j]] = NotCalled
            /\ \A j \in Positions : j < i => preRunRes[processes[j]] = NoError
            /\ \A p \in AllNames :
                    /\ runRes[p] = NotCalled
                    /\ g[p] = "none"
                    /\ sdRes[p] = NotCalled
            /\ sdLog = <<>>

\* PreRun failed at a position with predecessors and successors, and Run returned
C1_Witness ==
    /\ pc = "done"
    /\ \E i \in Positions :
        /\ 1 < i /\ i < Len(processes)
        /\ IsErr(preRunRes[processes[i]])
        /\ preRunRes[processes[1]] = NoError

----------------------------------------------------------------------------
(* C2: Shutdown is invoked in reverse list order, one call at a time, each call
   returning before the next begins, whichever case of the select fired. *)
C2_ReverseShutdownOrder ==
    /\ \A k \in 1..Len(sdLog) : sdLog[k].proc = processes[Len(processes) - k + 1]
    /\ \A k \in 1..(Len(sdLog) - 1) : ShutdownReturned(sdLog[k].proc)
    /\ Cardinality({ p \in AllNames : sdRes[p] = Pending }) <= 1
    /\ \A p \in AllNames :
            ShutdownInvoked(p) <=> \E k \in 1..Len(sdLog) : sdLog[k].proc = p

\* a run that a Run error ended and that has shut every process down
C2_Witness ==
    /\ pc = "done"
    /\ cause = "err"
    /\ Len(sdLog) = Len(processes)
    /\ Len(processes) > Len(systemProcesses)

----------------------------------------------------------------------------
(* C3: once the shutdown phase has begun the loop skips nothing: Shutdown is
   invoked on every process, also after Shutdown calls that returned errors,
   and Run returns only when every Shutdown has returned. *)
C3_BestEffortShutdown ==
    /\ pc = "shutdown" => Len(sdLog) = Len(processes) - idx
    /\ pc = "inShutdown" => Len(sdLog) = Len(processes) - idx + 1
    /\ (pc = "done" /\ cause # "none") =>
            \A i \in Positions : ShutdownReturned(processes[i])

\* the Shutdown of two later processes failed and the first process was shut down
C3_Witness ==
    /\ pc = "done"
    /\ IsErr(sdRes[processes[Len(processes)]])
    /\ IsErr(sdRes[processes[2]])
    /\ sdRes[processes[1]] = NoError

----------------------------------------------------------------------------
(* C4: when Run calls fail and the select receives from the error channel, the
   error Run returns reads "process <k> error: <e>" and wraps e, where e is
   what the Run of the process at Go index k returned; and Shutdown is invoked
   on every process, those that did not fail included. *)
IsRunErrorOf(x, k) ==
    /\ IsErr(runRes[processes[k]])
    /\ x.msg = <<"process ", ToString(k - 1), " error: ">> \o runRes[processes[k]].msg
    /\ x.cause = <<runRes[processes[k]]>>

----------------------------------------------------------------------------
(* C5: err is write-once: a recorded error is never replaced, neither by a
   later Run error nor by a Shutdown error, and it is what Run returns. *)
C5_ErrWriteOnce ==
    [][ /\ err # NoError => err' = err
        /\ (pc = "shutdown" /\ pc' = "done") => retval' = err ]_vars

\* a Run error was received, a Shutdown failed afterwards, and the Run error
\* was returned
C5_Witness ==
    /\ pc = "done"
    /\ cause = "err"
    /\ \E p \in AllNames : IsErr(sdRes[p])
    /\ \E k \in Positions : IsRunErrorOf(retval, k)

----------------------------------------------------------------------------
(* C6: after a cancellation of the input context, if some Shutdown failed, Run
   returns the very error of the first failing Shutdown in shutdown order, that
   of the failing process with the highest position, not wrapped. *)
FailedShutdowns == { i \in Positions : IsErr(sdRes[processes[i]]) }

Highest(S) == CHOOSE x \in S : \A y \in S : y <= x

C6_FirstShutdownErrorReturned ==
    (pc = "done" /\ cause = "ctx" /\ FailedShutdowns # {}) =>
        retval = sdRes[processes[Highest(FailedShutdowns)]]

\* two Shutdown calls failed after a cancellation
C6_Witness ==
    /\ pc = "done"
    /\ cause = "ctx"
    /\ Cardinality(FailedShutdowns) >= 2

----------------------------------------------------------------------------
(* C7: if the input context is cancelled, no Run returned an error and every
   Shutdown returned nil, Run returns nil. *)
C7_CleanCancellationNil ==
    ( /\ pc = "done"
      /\ CtxDone(ctxs, InputCtx)
      /\ \A p \in AllNames : ~IsErr(runRes[p])
      /\ \A i \in Positions : sdRes[processes[i]] = NoError ) =>
        retval = NoError

\* every Run returned nil, the context was cancelled, every Shutdown returned nil
C7_Witness ==
    /\ pc = "done"
    /\ cause = "ctx"
    /\ \A i \in Positions : runRes[processes[i]] = NoError
    /\ \A i \in Positions : sdRes[processes[i]] = NoError
    /\ retval = NoError

----------------------------------------------------------------------------
(* C8, as amended: every Shutdown call receives the one context that Run
   derived from the background context with the timeout closeTimeout; it is
   not the input context and no cancellation of the input context reaches it,
   so before Run returns it is done only when its own deadline has passed,
   which is so from the start when closeTimeout <= 0; Run makes no other
   context, so no process gets a deadline of its own. *)
C8_FreshShutdownContext ==
    /\ \A k \in 1..Len(sdLog) : sdLog[k].ctx = ShutdownCtx
    /\ DOMAIN ctxs \subseteq {InputCtx, ShutdownCtx}
    /\ (ShutdownCtx \in DOMAIN ctxs) <=> (cause # "none")
    /\ ShutdownCtx \in DOMAIN ctxs =>
        /\ ctxs[ShutdownCtx].parent = Background
        /\ ctxs[ShutdownCtx].deadline = <<closeTimeout>>
        /\ pc # "done" => CtxErr(ctxs, ShutdownCtx) \in {"", "deadline exceeded"}
        /\ (pc = "shutdown" /\ sdLog = <<>>) =>
                (closeTimeout <= 0 => CtxDone(ctxs, ShutdownCtx))

\* the input context was cancelled before the select and the first Shutdown runs
\* under a live shutdown context
C8_Witness ==
    /\ pc = "inShutdown"
    /\ Len(sdLog) = 1
    /\ cause = "ctx"
    /\ CtxDone(ctxs, InputCtx)
    /\ ~CtxDone(ctxs, ShutdownCtx)

(* C8 as stated: the shutdown context is the same for every Shutdown, derived
   from the background context with the timeout closeTimeout, and still live
   when the first Shutdown is invoked. *)
C8_Original ==
    /\ \A k \in 1..Len(sdLog) : sdLog[k].ctx = ShutdownCtx
    /\ ShutdownCtx \in DOMAIN ctxs =>
        /\ ctxs[ShutdownCtx].parent = Background
        /\ ctxs[ShutdownCtx].deadline = <<closeTimeout>>
        /\ (pc = "shutdown" /\ sdLog = <<>>) => ~CtxDone(ctxs, ShutdownCtx)

----------------------------------------------------------------------------
(* C9, as amended: Run returns a non-nil error whenever a PreRun failed, a
   Shutdown failed, or the select received a Run error; a Run error that the
   select did not receive is dropped: Run returns nil exactly when the
   ctx.Done case fired and no Shutdown failed. *)
C9_ErrorsPropagated ==
    pc = "done" =>
        /\ PreRunFailed => IsErr(retval)
        /\ cause = "err" => IsErr(retval)
        /\ (\E p \in AllNames : IsErr(sdRes[p])) => IsErr(retval)
        /\ (cause = "ctx" /\ \A p \in AllNames : ~IsErr(sdRes[p])) => retval = NoError

\* the ctx.Done case fired although a Run error was in the channel, and a
\* Shutdown failed: Run returned an error
C9_Witness ==
    /\ pc = "done"
    /\ cause = "ctx"
    /\ errCh # <<>>
    /\ \E p \in AllNames : IsErr(sdRes[p])
    /\ IsErr(retval)

(* C9 as stated: at the moment Run returns, if the PreRun, Run or Shutdown of
   some process has returned an error, the value returned is not nil. *)
C9_Original ==
    /\ (pc = "done" /\ PreRunFailed) => IsErr(retval)
    /\ ( /\ pc = "shutdown"
         /\ idx < 1
         /\ \E p \in AllNames : IsErr(runRes[p]) \/ IsErr(sdRes[p]) ) => err # NoError

----------------------------------------------------------------------------
(* C10: if a PreRun fails with e, Run has returned an error whose message is
   "pre-run error: " followed by the text of e and that unwraps to e; no
   goroutine was launched, the splash was not displayed, and nothing of the
   shutdown phase happened. *)
C10_PreRunErrorWrapped ==
    \A p \in AllNames :
        IsErr(preRunRes[p]) =>
            /\ pc = "done"
            /\ Len(retval.msg) > 1
            /\ retval.msg[1] = "pre-run error: "
            /\ SubSeq(retval.msg, 2, Len(retval.msg)) = preRunRes[p].msg
            /\ Unwrap(retval) = preRunRes[p]
            /\ \A q \in AllNames : g[q] = "none"
            /\ errCh = <<>>
            /\ splashCount = 0
            /\ cause = "none"
            /\ sdLog = <<>>
            /\ ShutdownCtx \notin DOMAIN ctxs

\* the PreRun of the last process failed after every other PreRun succeeded
C10_Witness ==
    /\ pc = "done"
    /\ IsErr(preRunRes[processes[Len(processes)]])
    /\ retval = WrapPreRun(preRunRes[processes[Len(processes)]])

----------------------------------------------------------------------------
(* C11: PreRun is invoked in list order, one call at a time: whenever the
   PreRun of a process has been invoked, the PreRun of every process before it
   has returned nil, and while the loop runs exactly the processes before the
   loop position have been called; no goroutine is launched and no Run is
   started before the PreRun of every process of the list has returned nil. *)
C11_PreRunOrder ==
    /\ \A i \in Positions :
            preRunRes[processes[i]] # NotCalled =>
                \A j \in Positions : j < i => preRunRes[processes[j]] = NoError
    /\ pc = "prerun" =>
            \A i \in Positions : (preRunRes[processes[i]] # NotCalled) <=> (i < idx)
    /\ \A p \in AllNames : preRunRes[p] # Pending
    /\ \A p \in AllNames :
            (g[p] # "none" \/ runRes[p] # NotCalled) =>
                \A i \in Positions : preRunRes[processes[i]] = NoError

\* the first goroutine has just been launched, after five PreRun calls
C11_Witness ==
    /\ pc = "launch"
    /\ idx = 2
    /\ g[processes[1]] = "running"
    /\ Len(processes) > Len(systemProcesses)
    /\ \A i \in Positions : preRunRes[processes[i]] = NoError

----------------------------------------------------------------------------
(* C12: the list Run operates on holds the system processes grpc, gateway,
   metrics, pprof in that order (and telemetry when enabled) before every
   custom process, and the custom processes in the order they were given;
   hence the PreRun of grpc precedes the PreRun of every custom process and
   the Shutdown of every custom process precedes the Shutdown of grpc. *)
PosOf(list, p) == CHOOSE i \in 1..Len(list) : list[i] = p

InList(list, p) == \E i \in 1..Len(list) : list[i] = p

SystemNames == { systemProcesses[i] : i \in 1..Len(systemProcesses) } \cup {TelemetryName}

CustomIn(list) == { p \in AllNames \ SystemNames : InList(list, p) }

C12_SystemBeforeCustom ==
    pc \notin {"new", "idle"} =>
        /\ \A i \in 1..Len(systemProcesses) : InList(processes, systemProcesses[i])
        /\ \A i, j \in 1..Len(systemProcesses) :
                i < j => PosOf(processes, systemProcesses[i]) < PosOf(processes, systemProcesses[j])
        /\ telemetryEnabled <=> InList(processes, TelemetryName)
        /\ \A c \in CustomIn(processes) :
                \A q \in SystemNames :
                    InList(processes, q) => PosOf(processes, q) < PosOf(processes, c)
        /\ \A i, j \in 1..Len(CustomNames) :
                (i < j /\ InList(processes, CustomNames[i]) /\ InList(processes, CustomNames[j]))
                    => PosOf(processes, CustomNames[i]) < PosOf(processes, CustomNames[j])
        /\ \A c \in CustomIn(processes) :
                /\ preRunRes[c] # NotCalled => preRunRes["grpc"] # NotCalled
                /\ sdRes["grpc"] # NotCalled => sdRes[c] # NotCalled

----------------------------------------------------------------------------
(* C14: a Run call does not change the stored process list: from the call of
   Run on, s.processes stays what it was. *)
C14_StoredListUnchanged ==
    [][pc # "new" => processes' = processes]_vars

----------------------------------------------------------------------------
(* What a sequence of options should leave in a field *)

\* the arguments of the options called name, one after the other
RECURSIVE Accumulated(_, _)
Accumulated(log, name) ==
    IF log = <<>> THEN <<>>
    ELSE (IF Head(log).name = name THEN Head(log).arg ELSE <<>>)
         \o Accumulated(Tail(log), name)

\* the positions of the options whose name is in names
Setters(log, names) == { k \in 1..Len(log) : log[k].name \in names }

\* the argument of the last option called name, or default when there is none
LastArg(log, name, default) ==
    IF Setters(log, {name}) = {} THEN default
    ELSE log[Highest(Setters(log, {name}))].arg

\* the close timeout the last of WithCloseTimeout and WithConfig leaves
LastCloseTimeout(log) ==
    IF Setters(log, {"WithCloseTimeout", "WithConfig"}) = {} THEN DefaultCloseTimeout
    ELSE IF log[Highest(Setters(log, {"WithCloseTimeout", "WithConfig"}))].name = "WithConfig"
    THEN ZeroCloseTimeout
    ELSE log[Highest(Setters(log, {"WithCloseTimeout", "WithConfig"}))].arg

(* C13, as amended: while NewServer applies its options in order, a scalar
   field holds what the last option that sets it gave (the close timeout: the
   last of WithCloseTimeout and WithConfig; the telemetry flag: set by any
   telemetry option), the process list holds the arguments of all WithProcesses
   options one after the other, and each of the service, unary-interceptor and
   stream-interceptor lists holds the argument of the last option for it alone:
   these options replace the list. *)
C13_OptionSemantics ==
    pc = "new" =>
        /\ closeTimeout = LastCloseTimeout(opts)
        /\ telemetryEnabled <=> Setters(opts, TelemetryOptions) # {}
        /\ processes = Accumulated(opts, "WithProcesses")
        /\ services = LastArg(opts, "WithServices", <<>>)
        /\ grpcUnaryServerInterceptors = LastArg(opts, "WithGRPCUnaryInterceptors", <<>>)
        /\ grpcStreamServerInterceptors = LastArg(opts, "WithGRPCStreamInterceptors", <<>>)

\* WithGRPCUnaryInterceptors(x) then WithGRPCUnaryInterceptors(y) were applied
C13_Witness ==
    /\ pc = "new"
    /\ Len(opts) = 2
    /\ opts[1] = [name |-> "WithGRPCUnaryInterceptors", arg |-> <<"x">>]
    /\ opts[2] = [name |-> "WithGRPCUnaryInterceptors", arg |-> <<"y">>]
    /\ grpcUnaryServerInterceptors = <<"y">>

(* C13 as stated: the last scalar wins, and the process list and the two
   interceptor lists accumulate the arguments of their options. *)
C13_Original ==
    pc = "new" =>
        /\ closeTimeout = LastCloseTimeout(opts)
        /\ processes = Accumulated(opts, "WithProcesses")
        /\ grpcUnaryServerInterceptors = Accumulated(opts, "WithGRPCUnaryInterceptors")
        /\ grpcStreamServerInterceptors = Accumulated(opts, "WithGRPCStreamInterceptors")

----------------------------------------------------------------------------
(* C15: once the select has fired, Run returns, provided each Shutdown call
   returns; when it returns, Shutdown has been attempted exactly once on each
   process of the list, whether or not Shutdown calls failed, and between the
   select and the return the coordinator does nothing but the Shutdown loop. *)
ShutdownAttempts(p) == Cardinality({ k \in 1..Len(sdLog) : sdLog[k].proc = p })

C15_StoppingTerminates ==
    /\ [](cause # "none" => pc \in {"shutdown", "inShutdown", "done"})
    /\ []((pc = "done" /\ cause # "none") =>
            /\ Len(sdLog) = Len(processes)
            /\ \A i \in Positions : ShutdownAttempts(processes[i]) = 1)
    /\ (cause # "none") ~> (pc = "done")

\* Run returned after a cancellation and a failed Shutdown of the gRPC server,
\* every process, the custom ones included, shut down once
C15_Witness ==
    /\ pc = "done"
    /\ cause = "ctx"
    /\ IsErr(sdRes["grpc"])
    /\ CustomIn(processes) # {}
    /\ \A i \in Positions : ShutdownAttempts(processes[i]) = 1

----------------------------------------------------------------------------
(* C16: each goroutine sends at most one error, the channel has room for one
   error per process, and no send blocks: a goroutine whose Run returned an
   error has sent it and ended, also when the select has already fired or Run
   has returned, so that the error is never received. *)
RunErrors == { p \in AllNames : IsErr(runRes[p]) }

----------------------------------------------------------------------------
(* C17: a Run that returns nil sends nothing and triggers nothing: the channel
   holds one entry per failed Run only, the ctx.Done case fires only on a done
   input context and the errCh case only after some Run returned an error; so
   while the input context is live and no Run has failed, the shutdown phase
   has not begun and Run has not returned, however many Runs returned nil. *)
ShutdownBegun == pc \in {"shutdown", "inShutdown"} \/ (pc = "done" /\ ~PreRunFailed)

C17_NilRunSilent ==
    /\ Len(errCh) <= Cardinality(RunErrors)
    /\ cause = "ctx" => CtxDone(ctxs, InputCtx)
    /\ cause = "err" => RunErrors # {}
    /\ (cause # "none") <=> ShutdownBegun
    /\ (~CtxDone(ctxs, InputCtx) /\ RunErrors = {}) =>
            /\ ~ShutdownBegun
            /\ errCh = <<>>
            /\ sdLog = <<>>
            /\ retval = NotCalled \/ PreRunFailed

\* every Run has returned nil, the input context is live, and the coordinator
\* is still waiting in the select
C17_Witness ==
    /\ pc = "select"
    /\ \A i \in Positions : runRes[processes[i]] = NoError /\ g[processes[i]] = "done"
    /\ ~CtxDone(ctxs, InputCtx)
    /\ errCh = <<>>
    /\ cause = "none"

----------------------------------------------------------------------------
(* C18: no phase is invoked twice on a process: what PreRun, Run or Shutdown
   has returned for a process is never replaced, an error included, a goroutine
   that exists is never started again and one that has ended stays ended, a
   Shutdown that has been invoked is not invoked again, and the Shutdown calls
   made name each process at most once. *)
C18_NoRetry ==
    [][ \A p \in AllNames :
            /\ preRunRes[p] # NotCalled => preRunRes'[p] = preRunRes[p]
            /\ runRes[p] \notin {NotCalled, Pending} => runRes'[p] = runRes[p]
            /\ runRes[p] = Pending => runRes'[p] # NotCalled
            /\ g[p] = "running" => g'[p] # "none"
            /\ g[p] \in {"done", "blocked"} => g'[p] = g[p]
            /\ sdRes[p] \notin {NotCalled, Pending} => sdRes'[p] = sdRes[p]
            /\ sdRes[p] = Pending => sdRes'[p] # NotCalled
            /\ ShutdownAttempts(p)' <= 1
            /\ ShutdownAttempts(p)' >= ShutdownAttempts(p) ]_vars

\* Run has returned; the Run and the Shutdown of one process both failed
C18_Witness ==
    /\ pc = "done"
    /\ \E p \in AllNames : IsErr(runRes[p]) /\ IsErr(sdRes[p])
    /\ \A i \in Positions : ShutdownAttempts(processes[i]) = 1

----------------------------------------------------------------------------
(* C19: the splash is displayed at most once; it has been displayed exactly
   when the coordinator has reached the select, which is after a goroutine was
   launched for every process and before any case of the select fired; it is
   not displayed while PreRun or the launch loop runs, nor when a PreRun
   failed. *)
C19_SplashOnceAfterLaunch ==
    /\ splashCount \in {0, 1}
    /\ splashCount = 1 <=>
            (pc \in {"select", "shutdown", "inShutdown"} \/ (pc = "done" /\ ~PreRunFailed))
    /\ splashCount = 1 => \A i \in Positions : g[processes[i]] # "none"
    /\ splashCount = 0 => cause = "none"
    /\ PreRunFailed => splashCount = 0

\* the splash has just been displayed: every goroutine is running and the
\* coordinator enters the select
C19_Witness ==
    /\ pc = "select"
    /\ splashCount = 1
    /\ cause = "none"
    /\ \A i \in Positions : g[processes[i]] = "running"

----------------------------------------------------------------------------
(* C20, as amended: of the system processes only the telemetry service returns
   from Run because its context is done, and it returns nil; the Run of the
   gRPC server, the gateway, the metrics endpoint and the profiling endpoint
   does not read its context: it returns nil only once Shutdown has been
   invoked on that server, and otherwise only with an error of its listener. *)
C20_RunStops ==
    \A i \in Positions :
        /\ processes[i] = TelemetryName =>
                /\ g[TelemetryName] = "running" =>
                        (ENABLED ProcRunStop(i) <=> CtxDone(ctxs, InputCtx))
                /\ runRes[TelemetryName] \notin {NotCalled, Pending} =>
                        (runRes[TelemetryName] = NoError /\ CtxDone(ctxs, InputCtx))
        /\ processes[i] \in ServerNames =>
                /\ g[processes[i]] = "running" =>
                        (ENABLED ProcRunStop(i) <=> ShutdownInvoked(processes[i]))
                /\ runRes[processes[i]] = NoError => ShutdownInvoked(processes[i])

\* the input context is cancelled: the telemetry service has returned from Run
\* and the four servers are still serving, no Shutdown having been invoked
C20_Witness ==
    /\ pc = "select"
    /\ CtxDone(ctxs, InputCtx)
    /\ runRes[TelemetryName] = NoError
    /\ \A p \in ServerNames : g[p] = "running"
    /\ sdLog = <<>>

(* C20 as stated: the Run of every system process can return once the context
   passed to it is done, no Shutdown call being needed. *)
C20_Original ==
    \A i \in Positions :
        ( /\ processes[i] \in ServerNames \cup {TelemetryName}
          /\ g[processes[i]] = "running"
          /\ CtxDone(ctxs, InputCtx) ) => ENABLED ProcRunStop(i)

----------------------------------------------------------------------------
(* C27: the coordinator does not consult the input context before the
   select: while the input context is done, the PreRun loop, the launch loop
   and the splash still take their next step; so when the ctx.Done case fires,
   the PreRun of every process has returned nil, a goroutine was launched for
   every process and the splash was displayed, and only then is Shutdown
   invoked, on every process. *)
C27_NoEarlyCtxCheck ==
    /\ CtxDone(ctxs, InputCtx) =>
            /\ (pc = "prerun" /\ idx <= Len(processes)) => ENABLED PreRunStep
            /\ (pc = "prerun" /\ idx > Len(processes)) => ENABLED PreRunDone
            /\ (pc = "launch" /\ idx <= Len(processes)) => ENABLED Launch
            /\ (pc = "launch" /\ idx > Len(processes)) => ENABLED SleepAndSplash
            /\ pc = "select" => ENABLED SelectCtxDone
    /\ cause = "ctx" =>
            /\ \A i \in Positions : preRunRes[processes[i]] = NoError
            /\ \A i \in Positions : g[processes[i]] # "none"
            /\ splashCount = 1
    /\ (pc = "done" /\ cause = "ctx") =>
            \A i \in Positions : ShutdownAttempts(processes[i]) = 1

\* the input context was cancelled before the PreRun loop ended; every PreRun
\* was invoked all the same and the launch loop is about to start
C27_Witness ==
    /\ pc = "launch"
    /\ idx = 1
    /\ CtxDone(ctxs, InputCtx)
    /\ \A i \in Positions : preRunRes[processes[i]] = NoError
    /\ \A p \in AllNames : g[p] = "none"

----------------------------------------------------------------------------
(* C28: Run and Shutdown reach a process only after the whole PreRun loop
   succeeded: in every state, if a goroutine was launched for a process, its
   Run was invoked or its Shutdown was invoked, then that process is in the
   list, its own PreRun returned nil and so did the PreRun of every process of
   the list; every Shutdown call made names such a process. *)
AllPreRunSucceeded == \A i \in Positions : preRunRes[processes[i]] = NoError

C28_PreRunBeforeRunAndShutdown ==
    /\ \A p \in AllNames :
            (g[p] # "none" \/ runRes[p] # NotCalled \/ ShutdownInvoked(p)) =>
                /\ InList(processes, p)
                /\ preRunRes[p] = NoError
                /\ AllPreRunSucceeded
    /\ \A k \in 1..Len(sdLog) : preRunRes[sdLog[k].proc] = NoError
    /\ sdLog # <<>> => AllPreRunSucceeded

\* the Shutdown of the gRPC server is running while its Run still serves; the
\* PreRun of every process has returned nil
C28_Witness ==
    /\ pc = "inShutdown"
    /\ sdRes["grpc"] = Pending
    /\ g["grpc"] = "running"
    /\ AllPreRunSucceeded

----------------------------------------------------------------------------
(* C29: the coordinator never joins its goroutines: it takes at most one value
   from the error channel (one exactly when the errCh case fired), and its
   Shutdown loop and its return wait for no goroutine: they can take their
   step whatever the goroutines are doing, so Run can return while the Run of
   a process is still executing. *)
Received == Cardinality(RunErrors) - Len(errCh)

C29_NoJoin ==
    /\ Received \in {0, 1}
    /\ Received = 1 <=> cause = "err"
    /\ (pc = "shutdown" /\ idx >= 1) => ENABLED ShutdownCall
    /\ (pc = "shutdown" /\ idx < 1) => ENABLED Return
    /\ pc = "done" => \A p \in AllNames : g[p] # "blocked"

\* Run has returned after the shutdown phase and the Run of a process whose
\* Shutdown returned is still executing
C29_Witness ==
    /\ pc = "done"
    /\ cause # "none"
    /\ retval # NotCalled
    /\ \E p \in AllNames : g[p] = "running" /\ runRes[p] = Pending /\ ShutdownReturned(p)

----------------------------------------------------------------------------
(* C26: the Run of the telemetry service is passive: it never returns an
   error, and it returns (nil) exactly when the context passed to Run is done.
   So while the input context is live, a telemetry goroutine that was launched
   stays in Run: through the shutdown phase that another process's Run error
   started, through the Shutdown of the telemetry service itself, and after
   the coordinator's Run has returned. *)
C26_TelemetryRunPassive ==
    InList(processes, TelemetryName) =>
        /\ ~IsErr(runRes[TelemetryName])
        /\ g[TelemetryName] = "running" =>
                /\ ~ENABLED ProcRunFail(PosOf(processes, TelemetryName))
                /\ ENABLED ProcRunStop(PosOf(processes, TelemetryName))
                        <=> CtxDone(ctxs, InputCtx)
        /\ (~CtxDone(ctxs, InputCtx) /\ g[TelemetryName] # "none") =>
                /\ g[TelemetryName] = "running"
                /\ runRes[TelemetryName] = Pending

\* a Run error ended the coordinator's Run, the input context is still live,
\* the telemetry service was shut down and its Run goroutine is still there
C26_Witness ==
    /\ pc = "done"
    /\ cause = "err"
    /\ ~CtxDone(ctxs, InputCtx)
    /\ ShutdownReturned(TelemetryName)
    /\ g[TelemetryName] = "running"

----------------------------------------------------------------------------
(* C30: nothing orders the entry into a process's Run with its Shutdown: the
   Shutdown loop takes its step on a process whose goroutine was launched and
   has not yet entered Run, and a launched goroutine can enter Run in every
   state, also when the Shutdown of its process has been invoked or has
   returned, whether the trigger was a cancellation or the Run error of
   another process. *)
C30_RunEntryUnordered ==
    /\ \A p \in AllNames : g[p] \in {"none", "launched"} <=> runRes[p] = NotCalled
    /\ (pc = "shutdown" /\ idx >= 1) => ENABLED ShutdownCall
    /\ \A i \in Positions : g[processes[i]] = "launched" => ENABLED RunEnter(i)

\* the Run error of another process started the shutdown phase, and the
\* Shutdown of the gateway has returned before its goroutine entered Run
C30_Witness ==
    /\ cause = "err"
    /\ ~CtxDone(ctxs, InputCtx)
    /\ g["gateway"] = "launched"
    /\ runRes["gateway"] = NotCalled
    /\ ShutdownReturned("gateway")
    /\ \E p \in AllNames \ {"gateway"} : IsErr(runRes[p])

----------------------------------------------------------------------------
(* C23: PreRun is idempotent: every PreRun call on a system process returns
   nil, a repeated one included, with or without a Shutdown in between; a
   PreRun repeated without a Shutdown in between leaves the server and the
   metrics registry as they were; and after the PreRun and the Shutdown of the
   metrics endpoint its PreRun does not panic. *)
C23_PreRunIdempotent ==
    /\ [](pc # "panicked")
    /\ [](\A k \in 1..Len(calls) : calls[k].op = "PreRun" => calls[k].res = NoError)
    /\ [][ \A p \in ServerNames :
                ( /\ Len(calls') > Len(calls)
                  /\ calls'[Len(calls')] = [on |-> p, op |-> "PreRun", res |-> NoError]
                  /\ server[p] = ServerAfterPreRun(p, server[p])
                  /\ preRunRes[p] = NoError )
                    => (server' = server /\ registry' = registry) ]_vars

----------------------------------------------------------------------------
(* C24: the Run of the gateway registers the registrars in list order and
   fails fast: a RegisterHTTP that returned an error is the last call made, Run
   has returned an error that reads "failed to register gateway: " followed by
   that error and wraps it, and the listener was not started; the listener is
   started only after RegisterHTTP returned nil for every registrar. *)
FailedRegistrations == { k \in 1..Len(calls) : calls[k].res # NoError }

C24_GatewayFailFast ==
    /\ Len(calls) <= Len(services)
    /\ \A k \in 1..Len(calls) : calls[k].op = "RegisterHTTP" /\ calls[k].on = services[k]
    /\ \A k \in FailedRegistrations :
            /\ k = Len(calls)
            /\ pc = "returned"
            /\ runRes["gateway"].msg = <<"failed to register gateway: ">> \o calls[k].res.msg
            /\ Unwrap(runRes["gateway"]) = calls[k].res
            /\ server["gateway"] = "new"
    /\ server["gateway"] # "new" =>
            /\ Len(calls) = Len(services)
            /\ FailedRegistrations = {}

\* the second of three registrars failed: Run returned, the third was not
\* registered and the listener was not started
C24_Witness ==
    /\ Len(services) = 3
    /\ Len(calls) = 2
    /\ calls[1].res = NoError
    /\ calls[2].res = RegisterErr(services[2])
    /\ pc = "returned"
    /\ runRes["gateway"] = WrapRegister(RegisterErr(services[2]))
    /\ server["gateway"] = "new"

----------------------------------------------------------------------------
(* C25: when the Shutdown of the telemetry service has returned, a stop was
   attempted on every component that PreRun initialised, in the order tracer,
   meter, OTEL provider, profiler, also after an earlier stop failed; no stop
   was attempted on a component that is unset; and the result is an error
   exactly when some attempted stop failed. *)
Initialised == { c \in DOMAIN telemetryService : telemetryService[c] = "set" }

Attempted == { calls[k].on : k \in 1..Len(calls) }

C25_TelemetryBestEffort ==
    pc = "returned" =>
        /\ Initialised \subseteq Attempted
        /\ Attempted \subseteq Initialised
        /\ \A j, k \in 1..Len(calls) :
                j < k => PosOf(Components, calls[j].on) < PosOf(Components, calls[k].on)
        /\ IsErr(sdRes[TelemetryName]) <=> \E k \in 1..Len(calls) : calls[k].res # NoError

----------------------------------------------------------------------------
(* C21: the Shutdown of every server returns no later than the moment the
   context it was given is done: no time passes while a Shutdown is running
   under a context that is cancelled or whose deadline has expired. *)
C21_ShutdownRespectsCtx ==
    [][ \A p \in ServerNames :
            (sdRes[p] = Pending /\ CtxDone(ctxs, ShutdownCtx)) => now' = now ]_vars

----------------------------------------------------------------------------
(* C22: the Shutdown of the gRPC server returns nil and nothing else, and it
   returns: once GracefulStop has completed, leaving the server stopped, or,
   when the timer of closeTimeout has fired, after a hard Stop; the hard stop
   is taken only when the timer has fired. *)
C22_GrpcShutdownReturnsNil ==
    /\ [](sdRes["grpc"] \in {NotCalled, Pending, NoError})
    /\ [](sdRes["grpc"] = NoError => server["grpc"] \in {"stopped", "forced"})
    /\ [](server["grpc"] = "forced" => (sdRes["grpc"] = NoError /\ TimerFired(now, timer)))
    /\ [](timer # <<>> => timer[1] <= Horizon)
    /\ (sdRes["grpc"] = Pending) ~> (sdRes["grpc"] = NoError)

\* GracefulStop did not complete within closeTimeout: the server was stopped
\* hard, Shutdown returned nil and Run returned nil
C22_Witness ==
    /\ pc = "done"
    /\ closeTimeout > 0
    /\ server["grpc"] = "forced"
    /\ sdRes["grpc"] = NoError
    /\ now >= timer[1]
    /\ retval = NoError

====
